---- MODULE Spec2Model ----
(***************************************************************************)
(* Model of retention_simulator.py: the drop-off schedule (load_data),     *)
(* the cohort decay (simulate_scenario), the three scenarios and their     *)
(* financial metrics (calculate_metrics and the metrics loop).             *)
(*                                                                         *)
(* Python floats are modelled as exact rationals <<n, d>> in lowest terms  *)
(* with d > 0; <<0, 0>> is NaN (the mean of an empty column).  Rounding    *)
(* error of the float arithmetic is not modelled.                          *)
(*                                                                         *)
(* The sidebar inputs are drawn over the ranges their widgets declare; an  *)
(* uploaded CSV is its dropoff_rate column, which the script reads without *)
(* validation, so it may be empty or hold rates outside 0..100.  The       *)
(* summary table and the chart read the results and change nothing.        *)
(***************************************************************************)
EXTENDS Integers, Sequences, FiniteSets, TLC

VARIABLES
    initial_learners,     \* sidebar input, line 11
    duration,             \* sidebar input, line 12
    dropoff_month3,       \* sidebar input, line 13
    revenue_per_learner,  \* sidebar input, line 14
    incentive_cost,       \* sidebar input, line 15
    incentive_month,      \* sidebar input, line 16
    retention_boost,      \* sidebar input, line 17
    uploaded_file,        \* [present, rows]: the uploaded drop-off column, line 19
    data,                 \* the dropoff_rate column of the frame load_data returned
    scenarios,            \* the scenarios dict, in insertion order
    metrics,              \* the metrics dict, in insertion order
    pc                    \* position of the script

vars == <<initial_learners, duration, dropoff_month3, revenue_per_learner,
          incentive_cost, incentive_month, retention_boost, uploaded_file,
          data, scenarios, metrics, pc>>

-----------------------------------------------------------------------------
(* Bounds of the model *)

MaxDuration == 4

MaxRows == 3

MaxTrajectory == 3

(* Values the inputs are drawn from *)

LearnerValues == {1000}

Month3Values == {0, 30, 100}

RevenueValues == {5}

CostValues == {0, 5}

BoostValues == {0, 20, 100}

UploadedRates == {-10, 10, 30, 150}

PercentRates == {0, 10, 30, 100}

TrajectoryValues == {0, 1000}

-----------------------------------------------------------------------------
(* Float arithmetic, as exact rationals *)

NaN == <<0, 0>>

Abs(k) == IF k < 0 THEN -k ELSE k

RECURSIVE GCD(_, _)
GCD(a, b) == IF b = 0 THEN a ELSE GCD(b, a % b)

Norm(n, d) ==
    IF d = 0 THEN NaN
    ELSE LET g == GCD(Abs(n), Abs(d))
             s == IF d < 0 THEN -1 ELSE 1
         IN  <<(s * n) \div g, (s * d) \div g>>

FromInt(k) == <<k, 1>>

IsNaN(x) == x[2] = 0

Mul(x, y) ==
    IF IsNaN(x) \/ IsNaN(y) THEN NaN
    ELSE LET g1 == GCD(Abs(x[1]), y[2])
             g2 == GCD(Abs(y[1]), x[2])
         IN  Norm((x[1] \div g1) * (y[1] \div g2), (x[2] \div g2) * (y[2] \div g1))

Add(x, y) ==
    IF IsNaN(x) \/ IsNaN(y) THEN NaN
    ELSE LET g == GCD(x[2], y[2])
             l == (x[2] \div g) * y[2]
         IN  Norm(x[1] * (l \div x[2]) + y[1] * (l \div y[2]), l)

Neg(x) == <<-x[1], x[2]>>

Sub(x, y) == Add(x, Neg(y))

DivInt(x, k) == Mul(x, <<1, k>>)

\* x <= y on floats: FALSE as soon as one side is NaN
Leq(x, y) ==
    /\ ~IsNaN(x)
    /\ ~IsNaN(y)
    /\ LET g == GCD(x[2], y[2])
       IN  x[1] * (y[2] \div g) <= y[1] * (x[2] \div g)

Lt(x, y) == Leq(x, y) /\ x # y

Zero == FromInt(0)

One == FromInt(1)

RECURSIVE SumSeq(_)
SumSeq(s) == IF s = <<>> THEN Zero ELSE Add(SumSeq(SubSeq(s, 1, Len(s) - 1)), s[Len(s)])

-----------------------------------------------------------------------------
(* load_data *)

\* np.linspace(10, 50, n)
linspace(n) ==
    [k \in 1..n |-> IF n = 1 THEN FromInt(10)
                    ELSE Add(FromInt(10), Norm(40 * (k - 1), n - 1))]

\* dropoff[2] = dropoff_month3 raises IndexError when the array is shorter than 3
SyntheticFails == duration < 3

synthetic == [linspace(duration) EXCEPT ![3] = FromInt(dropoff_month3)]

read_csv == [k \in 1..Len(uploaded_file.rows) |-> FromInt(uploaded_file.rows[k])]

\* df['dropoff_rate'].mean()
mean(df) == IF Len(df) = 0 THEN NaN ELSE DivInt(SumSeq(df), Len(df))

-----------------------------------------------------------------------------
(* simulate_scenario *)

\* learners = [initial_learners]
first_learners == <<FromInt(initial_learners)>>

\* slip: range(1, duration + 1)
in_range_inclusive(i) == i <= duration

\* for i in range(1, duration)
in_range(i) == i < duration

\* slip: the month's own position, df.loc[i - 1, ...]
rate_for_own_month(df, i) == IF i <= Len(df) THEN df[i] ELSE mean(df)

\* slip: beyond the column, the last known rate instead of the mean
rate_for_last_known(df, i) ==
    IF i < Len(df) THEN df[i + 1]
    ELSE IF Len(df) = 0 THEN NaN ELSE df[Len(df)]

\* df.loc[i, 'dropoff_rate'] if i < len(df) else df['dropoff_rate'].mean()
rate_for(df, i) == IF i < Len(df) THEN df[i + 1] ELSE mean(df)

\* slip: i == incentive_month, the loop index taken for the month
boosted_at_index(rate, improved, i) ==
    IF improved /\ i = incentive_month
    THEN Mul(rate, Sub(One, DivInt(FromInt(retention_boost), 100)))
    ELSE rate

\* slip: rate *= (1 + retention_boost / 100)
boosted_upwards(rate, improved, i) ==
    IF improved /\ (i + 1) = incentive_month
    THEN Mul(rate, Add(One, DivInt(FromInt(retention_boost), 100)))
    ELSE rate

\* if improved and (i + 1) == incentive_month: rate *= (1 - retention_boost / 100)
boosted(rate, improved, i) ==
    IF improved /\ (i + 1) = incentive_month
    THEN Mul(rate, Sub(One, DivInt(FromInt(retention_boost), 100)))
    ELSE rate

\* slip: learners[-1] * (1 + rate / 100)
retained_growing(last, rate) == Mul(last, Add(One, DivInt(rate, 100)))

\* retained = learners[-1] * (1 - rate / 100)
retained(last, rate) == Mul(last, Sub(One, DivInt(rate, 100)))

RECURSIVE simulate_loop(_, _, _, _)
simulate_loop(df, improved, learners, i) ==
    IF in_range(i)
    THEN simulate_loop(df, improved,
             Append(learners,
                    retained(learners[Len(learners)],
                             boosted(rate_for(df, i), improved, i))),
             i + 1)
    ELSE learners

simulate_scenario(df, improved) == simulate_loop(df, improved, first_learners, 1)

-----------------------------------------------------------------------------
(* calculate_metrics *)

\* sum([l * revenue_per_learner for l in learners])
gross_revenue(learners) ==
    SumSeq([k \in 1..Len(learners) |-> Mul(learners[k], FromInt(revenue_per_learner))])

\* slip: 1 <= incentive_month < len(learners)
incentive_total_strict(learners) ==
    IF 1 <= incentive_month /\ incentive_month < Len(learners)
    THEN Mul(learners[incentive_month], FromInt(incentive_cost))
    ELSE Zero

\* learners[incentive_month - 1] * incentive_cost if 1 <= incentive_month <= len(learners) else 0
incentive_total(learners) ==
    IF 1 <= incentive_month /\ incentive_month <= Len(learners)
    THEN Mul(learners[incentive_month], FromInt(incentive_cost))
    ELSE Zero

calculate_metrics(learners) ==
    LET gross == gross_revenue(learners)
        cost  == incentive_total(learners)
    IN  [gross |-> gross, cost |-> cost, net |-> Sub(gross, cost)]

-----------------------------------------------------------------------------
(* The script *)

Baseline == "Baseline (no incentive)"

NoEffect == "Incentive, no effect"

Improved == "Incentive, improved retention"

Uploads ==
    {[present |-> FALSE, rows |-> <<>>]} \cup
    {[present |-> TRUE, rows |-> r] :
        r \in UNION {[1..n -> UploadedRates] : n \in 0..MaxRows}}

InitWith(uploads) ==
    /\ initial_learners \in LearnerValues
    /\ duration \in 1..MaxDuration
    /\ uploaded_file \in uploads
    \* with an upload the month-3 input is never read: one value stands for all
    /\ dropoff_month3 \in (IF uploaded_file.present THEN {30} ELSE Month3Values)
    /\ revenue_per_learner \in RevenueValues
    /\ incentive_cost \in CostValues
    /\ incentive_month \in 1..duration
    /\ retention_boost \in BoostValues
    /\ data = <<>>
    /\ scenarios = <<>>
    /\ metrics = <<>>
    /\ pc = "load_data"

Init == InitWith(Uploads)

unchanged_inputs ==
    UNCHANGED <<initial_learners, duration, dropoff_month3, revenue_per_learner,
                incentive_cost, incentive_month, retention_boost, uploaded_file>>

\* data = load_data(), with an upload
LoadUploaded ==
    /\ pc = "load_data"
    /\ uploaded_file.present
    /\ data' = read_csv
    /\ pc' = "baseline"
    /\ UNCHANGED <<scenarios, metrics>>
    /\ unchanged_inputs

\* data = load_data(), without an upload
LoadSynthetic ==
    /\ pc = "load_data"
    /\ ~uploaded_file.present
    /\ ~SyntheticFails
    /\ data' = synthetic
    /\ pc' = "baseline"
    /\ UNCHANGED <<scenarios, metrics>>
    /\ unchanged_inputs

\* load_data() raises IndexError: the script stops
LoadRaises ==
    /\ pc = "load_data"
    /\ ~uploaded_file.present
    /\ SyntheticFails
    /\ pc' = "IndexError"
    /\ UNCHANGED <<data, scenarios, metrics>>
    /\ unchanged_inputs

SimulateBaseline ==
    /\ pc = "baseline"
    /\ scenarios' = Append(scenarios,
                        [key |-> Baseline, learners |-> simulate_scenario(data, FALSE)])
    /\ pc' = "no_effect"
    /\ UNCHANGED <<data, metrics>>
    /\ unchanged_inputs

SimulateNoEffect ==
    /\ pc = "no_effect"
    /\ scenarios' = Append(scenarios,
                        [key |-> NoEffect, learners |-> simulate_scenario(data, FALSE)])
    /\ pc' = "improved"
    /\ UNCHANGED <<data, metrics>>
    /\ unchanged_inputs

SimulateImproved ==
    /\ pc = "improved"
    /\ scenarios' = Append(scenarios,
                        [key |-> Improved, learners |-> simulate_scenario(data, TRUE)])
    /\ pc' = "metrics"
    /\ UNCHANGED <<data, metrics>>
    /\ unchanged_inputs

\* one iteration of: for key, learners in scenarios.items()
MetricsLoop ==
    /\ pc = "metrics"
    /\ Len(metrics) < Len(scenarios)
    /\ LET s == scenarios[Len(metrics) + 1]
           m == calculate_metrics(s.learners)
       IN  metrics' = Append(metrics,
                          [key |-> s.key, learners |-> s.learners,
                           gross |-> m.gross, cost |-> m.cost, net |-> m.net])
    /\ pc' = IF Len(metrics) + 1 = Len(scenarios) THEN "done" ELSE "metrics"
    /\ UNCHANGED <<data, scenarios>>
    /\ unchanged_inputs

Next ==
    \/ LoadUploaded
    \/ LoadSynthetic
    \/ LoadRaises
    \/ SimulateBaseline
    \/ SimulateNoEffect
    \/ SimulateImproved
    \/ MetricsLoop

Spec == Init /\ [][Next]_vars

-----------------------------------------------------------------------------
(* The same script, started on inputs that meet the declared ranges of the  *)
(* schedule: an uploaded column is non-empty and holds percentages 0..100   *)

PercentUploads ==
    {[present |-> FALSE, rows |-> <<>>]} \cup
    {[present |-> TRUE, rows |-> r] :
        r \in UNION {[1..n -> PercentRates] : n \in 1..MaxRows}}

InitValid == InitWith(PercentUploads)

SpecValid == InitValid /\ [][Next]_vars

-----------------------------------------------------------------------------
(* calculate_metrics on its own: the metrics loop applied to trajectories   *)
(* and an incentive month drawn freely, also outside 1..len(learners)       *)

Trajectories ==
    UNION {[1..n -> {FromInt(v) : v \in TrajectoryValues}] : n \in 1..MaxTrajectory}

InitMetrics ==
    /\ initial_learners \in LearnerValues
    /\ dropoff_month3 \in {30}
    /\ revenue_per_learner \in RevenueValues
    /\ incentive_cost \in CostValues
    /\ incentive_month \in 0..(MaxTrajectory + 1)
    /\ retention_boost \in {0}
    /\ uploaded_file = [present |-> FALSE, rows |-> <<>>]
    /\ data = <<>>
    /\ \E t1 \in Trajectories, t2 \in Trajectories :
          /\ duration = Len(t1)
          /\ scenarios = <<[key |-> Baseline, learners |-> t1],
                           [key |-> NoEffect, learners |-> t1],
                           [key |-> Improved, learners |-> t2]>>
    /\ metrics = <<>>
    /\ pc = "metrics"

NextMetrics == MetricsLoop

SpecMetrics == InitMetrics /\ [][NextMetrics]_vars

-----------------------------------------------------------------------------
(* Reading the two dicts *)

HasKey(d, key) == \E k \in 1..Len(d) : d[k].key = key

Get(d, key) == d[CHOOSE k \in 1..Len(d) : d[k].key = key]

\* the rates of a column are percentages and there is at least one
ValidRates(df) ==
    /\ Len(df) > 0
    /\ \A k \in 1..Len(df) : Leq(Zero, df[k]) /\ Leq(df[k], FromInt(100))

\* 0 <= t[i] <= t[i-1] for every i in 2..len(t)
DecayOnly(t) ==
    \A i \in 2..Len(t) : Leq(Zero, t[i]) /\ Leq(t[i], t[i - 1])

\* the rate the transition into month m (2..duration) reads from column df:
\* position m-1 counted from 0, the mean of the column beyond its end
ScheduleRate(df, m) == IF m - 1 >= Len(df) THEN mean(df) ELSE df[m]

\* column df with its first entry replaced by v
WithFirst(df, v) == [df EXCEPT ![1] = FromInt(v)]

-----------------------------------------------------------------------------
(* C1: Baseline and "Incentive, no effect" have identical trajectories and  *)
(* differ only in the incentive charge: Baseline is charged nothing (net =  *)
(* gross), "Incentive, no effect" is charged learners_at(incentive_month)   *)
(* x incentive_cost, which is > 0.  Stated of the finished run; the charge  *)
(* is asked to be > 0 only where its two factors are, so that a violation   *)
(* is one of the Baseline clauses.                                          *)
C1_BaselineUncharged ==
    pc = "done" =>
        LET b == Get(metrics, Baseline)
            n == Get(metrics, NoEffect)
        IN  /\ b.learners = n.learners
            /\ b.gross = n.gross
            /\ b.cost = Zero
            /\ b.net = b.gross
            /\ n.cost = Mul(n.learners[incentive_month], FromInt(incentive_cost))
            /\ (incentive_cost > 0 /\ Lt(Zero, n.learners[incentive_month])) =>
                  Lt(Zero, n.cost)

(* C2: the concrete scenario: 1000 learners, 3 months, rates [10, 10, 30],  *)
(* incentive in month 3, boost 20, revenue 5, cost 5 gives Baseline         *)
(* [1000, 900, 630], gross 12650, cost 0, net 12650 and the improved        *)
(* scenario [1000, 900, 684], gross 12920, cost 3420, net 9500.             *)
C2_ConcreteScenario ==
    ( /\ pc = "done"
      /\ initial_learners = 1000
      /\ duration = 3
      /\ uploaded_file = [present |-> TRUE, rows |-> <<10, 10, 30>>]
      /\ incentive_month = 3
      /\ retention_boost = 20
      /\ revenue_per_learner = 5
      /\ incentive_cost = 5 )
    =>
        LET b == Get(metrics, Baseline)
            i == Get(metrics, Improved)
        IN  /\ b.learners = <<FromInt(1000), FromInt(900), FromInt(630)>>
            /\ b.gross = FromInt(12650)
            /\ b.cost = Zero
            /\ b.net = FromInt(12650)
            /\ i.learners = <<FromInt(1000), FromInt(900), FromInt(684)>>
            /\ i.gross = FromInt(12920)
            /\ i.cost = FromInt(3420)
            /\ i.net = FromInt(9500)

(* C3: without an upload the schedule provider never fails: for every       *)
(* duration it yields `duration` entries, and the run yields trajectories   *)
(* (for duration 1 the single entry initial_learners).                      *)
C3_SyntheticNeverFails ==
    ~uploaded_file.present =>
        /\ pc # "IndexError"
        /\ pc \notin {"load_data", "IndexError"} => Len(data) = duration
        /\ (pc = "done" /\ duration = 1) =>
              \A k \in 1..Len(scenarios) : scenarios[k].learners = <<FromInt(initial_learners)>>

(* C4, as claimed: for all schedules, synthesized or uploaded and used      *)
(* as-is, every trajectory satisfies 0 <= t[i] <= t[i-1] for i in           *)
(* 2..duration.                                                             *)
C4_DecayForAllSchedules ==
    \A k \in 1..Len(scenarios) : DecayOnly(scenarios[k].learners)

(* C4, amended: for every schedule that is non-empty and whose rates all    *)
(* lie in [0, 100], every trajectory satisfies 0 <= t[i] <= t[i-1] for i in *)
(* 2..duration.                                                             *)
C4_DecayForPercentSchedules ==
    ValidRates(data) =>
        \A k \in 1..Len(scenarios) : DecayOnly(scenarios[k].learners)

C4_Witness ==
    /\ pc = "done"
    /\ uploaded_file.present
    /\ ValidRates(data)
    /\ Len(data) < duration
    /\ LET t == Get(scenarios, Improved).learners
       IN  \A i \in 2..Len(t) : Lt(Zero, t[i]) /\ Lt(t[i], t[i - 1])

C6_IncentiveTotal ==
    \A k \in 1..Len(metrics) :
        LET m == metrics[k]
        IN  /\ (1 <= incentive_month /\ incentive_month <= Len(m.learners)) =>
                  m.cost = Mul(m.learners[incentive_month], FromInt(incentive_cost))
            /\ (incentive_month < 1 \/ incentive_month > Len(m.learners)) =>
                  m.cost = Zero
            /\ m.net = Sub(m.gross, m.cost)

C6_Witness ==
    /\ pc = "done"
    /\ incentive_month > Len(Get(metrics, Baseline).learners)
    /\ Get(metrics, Baseline).cost = Zero
    /\ Lt(Zero, Get(metrics, Baseline).gross)
    /\ incentive_month = Len(Get(metrics, Improved).learners)
    /\ Lt(Zero, Get(metrics, Improved).cost)
    /\ Lt(Get(metrics, Improved).net, Get(metrics, Improved).gross)

(* C7: every trajectory has exactly `duration` entries and starts with      *)
(* initial_learners, whatever the schedule holds, however long it is and    *)
(* whatever the incentive parameters are.                                   *)
C7_LengthAndStart ==
    \A k \in 1..Len(scenarios) :
        /\ Len(scenarios[k].learners) = duration
        /\ scenarios[k].learners[1] = FromInt(initial_learners)

C7_Witness ==
    /\ pc = "done"
    /\ Len(scenarios) = 3
    /\ uploaded_file.present
    /\ Len(data) = 0
    /\ duration >= 3
    /\ retention_boost > 0
    /\ incentive_month = duration

(* C8: a schedule shorter than `duration` does not fail the run: the        *)
(* transition into month m reads the schedule entry at position m-1         *)
(* (counted from 0) while that lies within the schedule, and the arithmetic *)
(* mean of all the schedule's rates beyond it.                              *)
C8_MeanFallback ==
    /\ uploaded_file.present => pc # "IndexError"
    /\ \A k \in 1..Len(scenarios) :
          LET t == scenarios[k].learners
          IN  \A m \in 2..duration :
                 LET r == ScheduleRate(data, m)
                     e == IF scenarios[k].key = Improved /\ m = incentive_month
                          THEN Mul(r, Sub(One, DivInt(FromInt(retention_boost), 100)))
                          ELSE r
                 IN  /\ m <= Len(t)
                     /\ t[m] = Mul(t[m - 1], Sub(One, DivInt(e, 100)))

C8_Witness ==
    /\ pc = "done"
    /\ uploaded_file.present
    /\ Len(data) = 2
    /\ duration > 3
    /\ \A k \in 1..Len(data) : data[k] # mean(data)
    /\ LET t == Get(scenarios, Baseline).learners
       IN  t[duration] = Mul(t[duration - 1], Sub(One, DivInt(mean(data), 100)))

(* C9: when the schedule has at least `duration` entries its first entry    *)
(* never influences a result: the run on a schedule that differs only in    *)
(* that entry gives the same trajectories and the same metrics.             *)
C9_FirstEntryUnread ==
    (pc = "done" /\ Len(data) >= duration) =>
        \A v \in UploadedRates \cup PercentRates :
            \A k \in 1..Len(metrics) :
                LET t == simulate_scenario(WithFirst(data, v), metrics[k].key = Improved)
                    m == calculate_metrics(t)
                IN  /\ scenarios[k].learners = t
                    /\ metrics[k].learners = t
                    /\ metrics[k].gross = m.gross
                    /\ metrics[k].cost = m.cost
                    /\ metrics[k].net = m.net

C9_Witness ==
    /\ pc = "done"
    /\ Len(data) >= duration
    /\ duration >= 3
    /\ data[1] = FromInt(150)
    /\ data[2] = FromInt(10)
    /\ Get(metrics, Baseline).learners[2] = Mul(FromInt(initial_learners), <<9, 10>>)

(* C10: with incentive_month = 1 the boost is never applied: the improved   *)
(* trajectory and gross revenue equal Baseline's for every retention_boost, *)
(* and its incentive charge is still initial_learners x incentive_cost.     *)
C10_MonthOneNeverBoosted ==
    (pc = "done" /\ incentive_month = 1) =>
        LET b == Get(metrics, Baseline)
            i == Get(metrics, Improved)
        IN  /\ i.learners = b.learners
            /\ i.gross = b.gross
            /\ i.cost = Mul(FromInt(initial_learners), FromInt(incentive_cost))

C10_Witness ==
    /\ pc = "done"
    /\ incentive_month = 1
    /\ retention_boost = 100
    /\ incentive_cost > 0
    /\ duration >= 2
    /\ ValidRates(data)
    /\ Lt(Get(metrics, Improved).learners[2], FromInt(initial_learners))
    /\ Lt(Zero, Get(metrics, Improved).cost)

====
